---------------------------- MODULE Spec2Model ----------------------------
(***************************************************************************)
(* Model of projects_stats.py: the per-repository activity report of a     *)
(* Gerrit server.  The report (a CSV file) is rebuilt by main() from the   *)
(* repository catalog, the first-commit date of each repository and the    *)
(* last reads mined from the HTTP access logs.                             *)
(*                                                                         *)
(* Three specifications share the definitions below:                       *)
(*   Spec         runs of main(), one after the other, over the same CSV   *)
(*   SpecScan     one call of get_last_reads_from_logs, line by line       *)
(*   SpecClassify _extract_proj applied to one log line                    *)
(*                                                                         *)
(* Python values are modelled as follows.  An optional value (None or a    *)
(* value) is a sequence of length 0 or 1.  A str is a TLA+ string.  A log  *)
(* line is a record of its timestamp token and its request; a request path *)
(* is the sequence of its '/'-separated segments, the first of them not    *)
(* empty (a path that starts with "//" is read by urlsplit as a host).     *)
(***************************************************************************)
EXTENDS Integers, Sequences, FiniteSets, TLC

None == <<>>
Some(v) == <<v>>

\* Python truthiness of an optional str: None and "" are falsy.
Truthy(o) == o # None /\ o[1] # ""

(***************************************************************************)
(* Strings of the request grammar.                                         *)
(***************************************************************************)

\* '/'.join(segs)
RECURSIVE Join(_)
Join(segs) ==
    IF segs = <<>> THEN ""
    ELSE IF Len(segs) = 1 THEN segs[1]
    ELSE segs[1] \o "/" \o Join(Tail(segs))

\* urllib.parse.unquote on one path segment: %2F decodes to a '/', every other
\* character of the segments used here is literal.  unquote works character
\* by character, so decoding a path is decoding its segments.
unquote(seg) ==
    CASE seg = "foo%2Fbar" -> "foo/bar"
      [] seg = "foo%2Fbar.git" -> "foo/bar.git"
      [] OTHER -> seg

\* The segment without a trailing ".git", the text the lazy group <proj> of
\* _UPLOAD_PACK_RE stops at before (?:\.git)?.
StripGit(seg) ==
    CASE seg = "foo%2Fbar.git" -> "foo%2Fbar"
      [] seg = "a.git" -> "a"
      [] seg = "b.git" -> "b"
      [] OTHER -> seg

\* rest.split('~', 1)[0] on one segment: the text before its first '~'.
HasTilde(seg) == seg \in {"foo~main~I1", "a~main~I1", "b~main~I1"}

BeforeTilde(seg) ==
    CASE seg = "foo~main~I1" -> "foo"
      [] seg = "a~main~I1" -> "a"
      [] seg = "b~main~I1" -> "b"
      [] OTHER -> seg

(***************************************************************************)
(* _extract_ts                                                             *)
(***************************************************************************)

\* A bracketed timestamp token [YYYY-MM-DDThh:mm:ssZ] or [...ss.fffZ]: s counts
\* the seconds of the (calendar-valid) date and time after 2024-01-01T00:00:00,
\* f holds the digits after the '.', <<>> when the token has no fraction.
\* A line without such a token carries None.

\* _TS_RE.search(line): the token, if the line has one.  The pattern admits a
\* missing fraction and any number (>= 1) of fraction digits.
_TS_RE(line) == line.ts

\* The microseconds %f reads from 1..6 digits: the digits padded right to 6.
RECURSIVE Micro(_, _)
Micro(f, width) ==
    IF width = 0 THEN 0
    ELSE IF f = <<>> THEN 0
    ELSE f[1] * (10 ^ (width - 1)) + Micro(Tail(f), width - 1)

FracDigits == 6

\* datetime.strptime(s, "%Y-%m-%dT%H:%M:%S.%fZ"): the format demands the '.'
\* and 1 to 6 fraction digits; anything else raises ValueError.
StrptimeOk(tok) == Len(tok.f) >= 1 /\ Len(tok.f) <= FracDigits

_extract_ts(line) ==
    LET m == _TS_RE(line) IN
    IF m = None THEN None
    ELSE IF StrptimeOk(m[1])
         THEN Some([s |-> m[1].s, us |-> Micro(m[1].f, FracDigits)])
         ELSE None

\* datetime ordering: ts > prev
DtGreater(ts, prev) ==
    ts.s > prev.s \/ (ts.s = prev.s /\ ts.us > prev.us)

(***************************************************************************)
(* _extract_proj                                                           *)
(***************************************************************************)

NoMatch == [proj |-> None, discarded |-> None]

\* The tail of _UPLOAD_PACK_RE after <proj>: at segment k of segs,
\* /(git-)?upload-pack, or /info/refs?service=git-upload-pack (the '?' right
\* after refs: refs is the last segment of the path).
PackTail(segs, query, k) ==
    /\ k <= Len(segs)
    /\ \/ segs[k] \in {"git-upload-pack", "upload-pack"}
       \/ /\ segs[k] = "info"
          /\ k + 1 = Len(segs)
          /\ segs[k + 1] = "refs"
          /\ query = "service=git-upload-pack"

\* The segment counts n for which <proj> = segs[1..n] (less a ".git") is
\* followed by the tail.  <proj> starts with a character that is no '/'.
PackEnds(segs, query) ==
    {n \in 1..Len(segs) : segs[1] # "" /\ PackTail(segs, query, n + 1)}

Min(S) == CHOOSE n \in S : \A m \in S : n <= m

\* <proj> is lazy: the shortest one that lets the rest match.
PackProj(segs, query) ==
    LET n == Min(PackEnds(segs, query)) IN
    Join([i \in 1..n |-> IF i = n THEN unquote(StripGit(segs[i]))
                                  ELSE unquote(segs[i])])

\* _UPLOAD_PACK_RE.search(line): the method is GET or POST; the optional
\* prefix a/ or p/ is tried first and given up if the rest does not match.
_UPLOAD_PACK_RE(req) ==
    IF req = None \/ req[1].method \notin {"GET", "POST"} THEN None
    ELSE LET segs == req[1].segs
             query == req[1].query
             pre == Len(segs) >= 2 /\ segs[1] \in {"a", "p"}
         IN IF pre /\ PackEnds(Tail(segs), query) # {}
              THEN Some(PackProj(Tail(segs), query))
            ELSE IF PackEnds(segs, query) # {}
              THEN Some(PackProj(segs, query))
            ELSE None

\* The text of /changes/<rest> up to its first '~', decoded.
ChangeProj(rest) ==
    LET T == {i \in 1..Len(rest) : HasTilde(rest[i])} IN
    IF T = {} THEN Join([i \in 1..Len(rest) |-> unquote(rest[i])])
    ELSE LET n == Min(T) IN
         Join([i \in 1..n |-> IF i = n THEN unquote(BeforeTilde(rest[i]))
                                       ELSE unquote(rest[i])])

\* Lines 94-135: the generic request-line fallback.
HttpUrl(req) ==
    IF req = None \/ req[1].method \notin {"GET", "HEAD"} THEN NoMatch
    ELSE LET path == req[1].segs
             path_ == IF Len(path) >= 2 /\ path[1] = "a" THEN Tail(path) ELSE path
         IN IF Len(path_) >= 2 /\ path_[1] = "projects"
              THEN [proj |-> Some(unquote(path_[2])), discarded |-> None]
            ELSE IF Len(path_) >= 2 /\ path_[1] = "changes"
              THEN [proj |-> Some(ChangeProj(Tail(path_))), discarded |-> None]
            ELSE [proj |-> None, discarded |-> Some("/" \o Join(path_))]

\* Variant: the generic fallback is consulted first.
extract_proj_fallback_first(line) ==
    LET g == HttpUrl(line.req)
        m == _UPLOAD_PACK_RE(line.req)
    IN IF g.proj # None THEN g
       ELSE IF m # None THEN [proj |-> m, discarded |-> None]
       ELSE g

_extract_proj(line) ==
    LET m == _UPLOAD_PACK_RE(line.req) IN
    IF m # None THEN [proj |-> m, discarded |-> None]
    ELSE HttpUrl(line.req)

(***************************************************************************)
(* The log directory and get_last_reads_from_logs                          *)
(***************************************************************************)

Tok(s, f) == Some([s |-> s, f |-> f])
Req(method, segs, query) == Some([method |-> method, segs |-> segs, query |-> query])

\* [2024-01-01T00:00:01.5Z] "POST /a/a/git-upload-pack
LinePackA == [ts |-> Tok(1, <<5>>), req |-> Req("POST", <<"a", "a", "git-upload-pack">>, "")]
\* [2024-01-01T00:00:02.001Z] "GET /a/projects/a/branches
LineRestA == [ts |-> Tok(2, <<0, 0, 1>>), req |-> Req("GET", <<"a", "projects", "a", "branches">>, "")]
\* [2024-01-01T00:00:03Z] "GET /a/info/refs?service=git-upload-pack
LineNoFracA == [ts |-> Tok(3, <<>>), req |-> Req("GET", <<"a", "info", "refs">>, "service=git-upload-pack")]
\* [2024-01-01T00:00:02.5Z] "GET /changes/b~main~I1/detail
LineChangeB == [ts |-> Tok(2, <<5>>), req |-> Req("GET", <<"changes", "b~main~I1", "detail">>, "")]
\* [2024-01-01T00:00:01.5Z] "GET /static/logo.png
LineStatic == [ts |-> Tok(1, <<5>>), req |-> Req("GET", <<"static", "logo.png">>, "")]

LogLines == {LinePackA, LineRestA, LineNoFracA, LineChangeB, LineStatic}

\* The files of the log directory that pass the name test of _iter_log_files.
FileNames == {"httpd.log", "httpd.log.1.gz"}

\* The most lines a log directory holds, over all its files.
MaxLines == 3

\* bad: None when the file reads to its end, Some(k) when reading it raises
\* after k lines were delivered (k = 0: the file cannot be opened).
FilesOfLen(l) ==
    [lines : [1..l -> LogLines], bad : {None} \cup {Some(k) : k \in 0..l}]

\* The directories of two files that hold MaxLines lines or fewer.
IsDir(d) ==
    \E n \in 0..MaxLines, m \in 0..MaxLines :
      /\ n + m <= MaxLines
      /\ \E newer \in FilesOfLen(n), older \in FilesOfLen(m) :
           d = [f \in FileNames |-> IF f = "httpd.log" THEN newer ELSE older]

EmptyMap == [r \in {} |-> 0]
Put(m, k, v) == [x \in DOMAIN m \cup {k} |-> IF x = k THEN v ELSE m[x]]

VARIABLES
    pc,             \* "idle", "scan" (main is in or before the log scan), "done", "crashed"
    catalog,        \* what get_gerrit_projects returned to this run
    repos,          \* main's repos, after the two remove calls
    existing_data,  \* what load_existing_csv returned to this run
    csv,            \* the file CSV_OUTPUT: None, or Some(table of rows of cells)
    first_commit,   \* the calls of get_first_commit_date of this run: repo -> result
    LOGS_PATH,      \* "" or the path of the log directory
    dir,            \* the log directory: file name -> file
    pending,        \* the files _iter_log_files has not yielded yet
    cur,            \* the file being read: None or Some(name)
    pos,            \* the lines read from cur
    consumed,       \* file name -> the lines of it the loop body has processed
    last_reads,     \* get_last_reads_from_logs' last_reads
    discarded_urls, \* get_last_reads_from_logs' discarded_urls
    line,           \* the input of _extract_proj (SpecClassify)
    result          \* None, or Some(what _extract_proj returned)

vars == <<pc, catalog, repos, existing_data, csv, first_commit, LOGS_PATH, dir,
          pending, cur, pos, consumed, last_reads, discarded_urls, line, result>>

mainVars == <<catalog, repos, existing_data, csv, first_commit, LOGS_PATH>>
scanVars == <<dir, pending, cur, pos, consumed, last_reads, discarded_urls>>
classifyVars == <<line, result>>

\* Variant: the comparison with the stored value is missing.
fold_read_overwrite(reads, proj, ts) == Put(reads, proj, ts)

\* Lines 190-192: prev = last_reads.get(proj); if prev is None or ts > prev.
fold_read(reads, proj, ts) ==
    IF proj \notin DOMAIN reads \/ DtGreater(ts, reads[proj])
    THEN Put(reads, proj, ts)
    ELSE reads

\* Lines 180-192, the body of the loop over the lines of a file.
scan_line(reads, urls, l) ==
    LET ts == _extract_ts(l)
        e == _extract_proj(l)
    IN IF ts = None THEN [reads |-> reads, urls |-> urls]
       ELSE IF ~Truthy(e.proj)
         THEN [reads |-> reads,
               urls |-> IF Truthy(e.discarded) THEN urls \cup {e.discarded[1]} ELSE urls]
       ELSE [reads |-> fold_read(reads, e.proj[1], ts[1]), urls |-> urls]

\* _iter_log_files yields the files by modification time, newest first; the
\* modification times are any, so the next file is any file not yet yielded.
\* Opening it fails (line 178): the warning of line 194, and the next file.
OpenFail ==
    /\ pc = "scan" /\ cur = None
    /\ \E f \in pending :
         /\ dir[f].bad = Some(0)
         /\ pending' = pending \ {f}
    /\ UNCHANGED <<pc, mainVars, dir, cur, pos, consumed, last_reads,
                   discarded_urls, classifyVars>>

OpenFile ==
    /\ pc = "scan" /\ cur = None
    /\ \E f \in pending :
         /\ dir[f].bad # Some(0)
         /\ pending' = pending \ {f}
         /\ cur' = Some(f)
    /\ pos' = 0
    /\ UNCHANGED <<pc, mainVars, dir, consumed, last_reads, discarded_urls,
                   classifyVars>>

\* for line in fh: one more line, and the loop body on it.
ReadLine ==
    /\ pc = "scan" /\ cur # None
    /\ LET f == dir[cur[1]] IN
         /\ pos < Len(f.lines)
         /\ f.bad # Some(pos)
         /\ LET r == scan_line(last_reads, discarded_urls, f.lines[pos + 1]) IN
              /\ last_reads' = r.reads
              /\ discarded_urls' = r.urls
    /\ pos' = pos + 1
    /\ consumed' = [consumed EXCEPT ![cur[1]] = @ + 1]
    /\ UNCHANGED <<pc, mainVars, dir, pending, cur, classifyVars>>

\* Variant: the exception of a file ends the whole scan.
ReadFailAborts ==
    /\ pc = "scan" /\ cur # None
    /\ dir[cur[1]].bad = Some(pos)
    /\ cur' = None
    /\ pos' = 0
    /\ pending' = {}
    /\ UNCHANGED <<pc, mainVars, dir, consumed, last_reads, discarded_urls,
                   classifyVars>>

\* Reading the next line raises: the except of line 193 leaves the file, and
\* what its earlier lines put in last_reads and discarded_urls stays.
ReadFail ==
    /\ pc = "scan" /\ cur # None
    /\ dir[cur[1]].bad = Some(pos)
    /\ cur' = None
    /\ pos' = 0
    /\ UNCHANGED <<pc, mainVars, dir, pending, consumed, last_reads,
                   discarded_urls, classifyVars>>

\* The file is at its end.
CloseFile ==
    /\ pc = "scan" /\ cur # None
    /\ pos = Len(dir[cur[1]].lines)
    /\ dir[cur[1]].bad # Some(pos)
    /\ cur' = None
    /\ pos' = 0
    /\ UNCHANGED <<pc, mainVars, dir, pending, consumed, last_reads,
                   discarded_urls, classifyVars>>

ScanReturned == pc = "scan" /\ cur = None /\ pending = {}

NextScan == OpenFail \/ OpenFile \/ ReadLine \/ ReadFail \/ CloseFile

DefaultLine == [ts |-> None, req |-> None]

InitScan ==
    /\ pc = "scan"
    /\ catalog = <<>> /\ repos = <<>> /\ existing_data = EmptyMap
    /\ csv = None /\ first_commit = EmptyMap
    /\ LOGS_PATH = "logs"
    /\ IsDir(dir)
    /\ pending = FileNames
    /\ cur = None /\ pos = 0
    /\ consumed = [f \in FileNames |-> 0]
    /\ last_reads = EmptyMap
    /\ discarded_urls = {}
    /\ line = DefaultLine /\ result = None

SpecScan == InitScan /\ [][NextScan]_vars

(***************************************************************************)
(* The report file: load_existing_csv and write_to_csv                     *)
(***************************************************************************)

CSV_HEADER_REPOSITORY == "Repository"
CSV_HEADER_CREATION_DATE == "Creation Date"
CSV_HEADER_LAST_READ == "Last Read Date"

Max(S) == CHOOSE n \in S : \A m \in S : n >= m

\* csv.DictReader's row.get(col): the cell under the header col, None when the
\* header has no such column or the row is too short.
RowGet(header, row, col) ==
    LET I == {i \in 1..Len(header) : header[i] = col /\ i <= Len(row)} IN
    IF I = {} THEN None ELSE Some(row[Max(I)])

\* x or None
OrNone(o) == IF Truthy(o) THEN o ELSE None

\* Lines 35-47.  The table's first row is the header; of two rows of one
\* repository the later one stays in the dict.
load_existing_csv(file) ==
    IF file = None \/ file[1] = <<>> THEN EmptyMap
    ELSE LET header == file[1][1]
             rows == Tail(file[1])
             Named == {i \in 1..Len(rows) : Truthy(RowGet(header, rows[i], CSV_HEADER_REPOSITORY))}
             Names == {RowGet(header, rows[i], CSV_HEADER_REPOSITORY)[1] : i \in Named}
             Last(repo) == Max({i \in Named :
                                  RowGet(header, rows[i], CSV_HEADER_REPOSITORY) = Some(repo)})
         IN [repo \in Names |->
               [creation |-> OrNone(RowGet(header, rows[Last(repo)], CSV_HEADER_CREATION_DATE)),
                last_read |-> OrNone(RowGet(header, rows[Last(repo)], CSV_HEADER_LAST_READ))]]

\* x or "N/A"
OrNA(o) == IF Truthy(o) THEN o[1] ELSE "N/A"

\* Lines 203-207: the header, then one row of three cells per tuple.
write_to_csv(repo_data) ==
    Some(<<  <<CSV_HEADER_REPOSITORY, CSV_HEADER_CREATION_DATE, CSV_HEADER_LAST_READ>>  >>
         \o [i \in 1..Len(repo_data) |->
               <<repo_data[i][1], OrNA(repo_data[i][2]), OrNA(repo_data[i][3])>>])

\* n in decimal, on width digits.
RECURSIVE Digits(_, _)
Digits(n, width) ==
    IF width = 0 THEN ""
    ELSE ToString(n \div (10 ^ (width - 1))) \o Digits(n % (10 ^ (width - 1)), width - 1)

\* str() of an aware UTC datetime, which is what csv.writer writes for it: the
\* microseconds are left out when they are 0.
DtStr(dt) ==
    "2024-01-01 00:00:0" \o ToString(dt.s)
    \o (IF dt.us = 0 THEN "" ELSE "." \o Digits(dt.us, FracDigits))
    \o "+00:00"

(***************************************************************************)
(* main                                                                    *)
(***************************************************************************)

\* list.remove(x) raises ValueError when x is not in the list.
RemoveRaises(list, x) == \A i \in 1..Len(list) : list[i] # x

\* Variant: nothing is removed.
remove_nothing(list, x) == list

\* list.remove(x): the list without its first x.
Remove(list, x) ==
    LET k == Min({i \in 1..Len(list) : list[i] = x}) IN
    [i \in 1..(Len(list) - 1) |-> IF i < k THEN list[i] ELSE list[i + 1]]

\* The names the Gerrit server lists, in its order.
CatalogOrder == <<"All-Projects", "All-Users", "a", "b">>

RECURSIVE Sel(_, _)
Sel(seq, keep) ==
    IF seq = <<>> THEN <<>>
    ELSE (IF Head(seq) \in keep THEN <<Head(seq)>> ELSE <<>>) \o Sel(Tail(seq), keep)

Range(seq) == {seq[i] : i \in 1..Len(seq)}

\* What get_gerrit_projects may return: the keys of a JSON object, each once.
Catalogs == {Sel(CatalogOrder, keep) : keep \in SUBSET Range(CatalogOrder)}

\* What get_first_commit_date may return for a repository: None (no master
\* branch, no repository, git failing) or the %aI date of the first commit.
FirstCommitDates == {None, Some("2019-06-01T00:00:00+00:00"), Some("2020-01-01T00:00:00+00:00")}

File(lines) == [lines |-> lines, bad |-> None]
Dir(newer, older) == [f \in FileNames |-> IF f = "httpd.log" THEN File(newer) ELSE File(older)]
EmptyDir == Dir(<<>>, <<>>)

\* The log directories of the runs of main.
RunDirs ==
    { EmptyDir,
      Dir(<<LinePackA>>, <<>>),
      Dir(<<LineNoFracA>>, <<>>),
      Dir(<<LineChangeB>>, <<LineStatic>>),
      Dir(<<LineRestA, LineChangeB>>, <<LinePackA>>),
      [Dir(<<LinePackA>>, <<LineChangeB>>) EXCEPT !["httpd.log"].bad = Some(0)],
      [Dir(<<>>, <<LinePackA, LineRestA>>) EXCEPT !["httpd.log.1.gz"].bad = Some(1)] }

\* What a run finds configured: no logs directory, or one and its files.
RunLogs == {<<"", EmptyDir>>} \cup {<<"logs", d>> : d \in RunDirs}

\* Lines 223-236, up to the call of get_last_reads_from_logs.  The first
\* remove that raises ends main, before anything is read or written.
StartRun ==
    /\ pc \in {"idle", "done", "crashed"}
    /\ \E c \in Catalogs, logs \in RunLogs :
         /\ catalog' = c
         /\ LOGS_PATH' = logs[1]
         /\ IF RemoveRaises(c, "All-Projects")
               \/ RemoveRaises(Remove(c, "All-Projects"), "All-Users")
            THEN /\ pc' = "crashed"
                 /\ repos' = <<>>
                 /\ existing_data' = EmptyMap
                 /\ dir' = EmptyDir
                 /\ pending' = {}
            ELSE /\ pc' = "scan"
                 /\ repos' = Remove(Remove(c, "All-Projects"), "All-Users")
                 /\ existing_data' = load_existing_csv(csv)
                 /\ dir' = logs[2]
                 /\ pending' = IF logs[1] # "" THEN FileNames ELSE {}
    /\ first_commit' = EmptyMap
    /\ cur' = None /\ pos' = 0
    /\ consumed' = [f \in FileNames |-> 0]
    /\ last_reads' = EmptyMap
    /\ discarded_urls' = {}
    /\ UNCHANGED <<csv, classifyVars>>

\* Variant: the creation date of the report is not reused.
existing_creation_ignored(repo) == None

\* Line 240: existing_data.get(repo, {}).get("creation")
existing_creation(repo) ==
    IF repo \in DOMAIN existing_data THEN existing_data[repo].creation ELSE None

\* Variant: the last read of the prior report is kept when the logs have none.
last_read_carried(repo) ==
    IF repo \in DOMAIN last_reads THEN Some(DtStr(last_reads[repo]))
    ELSE IF repo \in DOMAIN existing_data THEN existing_data[repo].last_read
    ELSE None

\* Lines 252-254, with the str() csv.writer applies to the datetime.
last_read(repo) ==
    IF repo \in DOMAIN last_reads THEN Some(DtStr(last_reads[repo])) ELSE None

\* Lines 238-259: the rows, one per repository of repos, and the report
\* written over the old one.  get_first_commit_date is called for the
\* repositories whose existing creation date is falsy; h holds what it returns.
FinishRun ==
    /\ ScanReturned
    /\ LET asked == {r \in Range(repos) : ~Truthy(existing_creation(r))} IN
       \E h \in [asked -> FirstCommitDates] :
         /\ first_commit' = h
         /\ csv' = write_to_csv(
                     [i \in 1..Len(repos) |->
                        <<repos[i],
                          IF Truthy(existing_creation(repos[i]))
                            THEN existing_creation(repos[i])
                            ELSE h[repos[i]],
                          last_read(repos[i])>>])
    /\ pc' = "done"
    /\ UNCHANGED <<catalog, repos, existing_data, LOGS_PATH, scanVars, classifyVars>>

Init ==
    /\ pc = "idle"
    /\ catalog = <<>> /\ repos = <<>> /\ existing_data = EmptyMap
    /\ csv = None /\ first_commit = EmptyMap
    /\ LOGS_PATH = ""
    /\ dir = EmptyDir
    /\ pending = {}
    /\ cur = None /\ pos = 0
    /\ consumed = [f \in FileNames |-> 0]
    /\ last_reads = EmptyMap
    /\ discarded_urls = {}
    /\ line = DefaultLine /\ result = None

Next == StartRun \/ NextScan \/ FinishRun

Spec == Init /\ [][Next]_vars

(***************************************************************************)
(* _extract_proj on one line                                               *)
(***************************************************************************)

Methods == {"GET", "POST", "HEAD", "PUT"}
Segs == {"a", "p", "projects", "changes", "foo%2Fbar.git", "foo~main~I1", "info", "refs",
         "git-upload-pack", "upload-pack"}
Queries == {"", "service=git-upload-pack"}

\* The most segments of a request path.
MaxSegs == 4

\* The lines given to _extract_proj: no request, or a request of a method, a
\* path of 1..MaxSegs segments and a query.
IsClassifyLine(l) ==
    \/ l = [ts |-> Tok(1, <<5>>), req |-> None]
    \/ \E m \in Methods, n \in 1..MaxSegs, q \in Queries :
         \E p \in [1..n -> Segs] :
           l = [ts |-> Tok(1, <<5>>), req |-> Req(m, p, q)]

Classify ==
    /\ pc = "classify"
    /\ result = None
    /\ result' = Some(_extract_proj(line))
    /\ UNCHANGED <<pc, mainVars, scanVars, line>>

InitClassify ==
    /\ pc = "classify"
    /\ catalog = <<>> /\ repos = <<>> /\ existing_data = EmptyMap
    /\ csv = None /\ first_commit = EmptyMap
    /\ LOGS_PATH = ""
    /\ dir = EmptyDir
    /\ pending = {}
    /\ cur = None /\ pos = 0
    /\ consumed = [f \in FileNames |-> 0]
    /\ last_reads = EmptyMap
    /\ discarded_urls = {}
    /\ IsClassifyLine(line)
    /\ result = None

NextClassify == Classify

SpecClassify == InitClassify /\ [][NextClassify]_vars

(***************************************************************************)
(* Properties                                                              *)
(***************************************************************************)

AdminNames == {"All-Projects", "All-Users"}

\* The rows of the report file, without the header.
ReportRows == IF csv = None THEN <<>> ELSE Tail(csv[1])

\* The cells in column col of the rows of file that name repo.
Cells(file, repo, col) ==
    IF file = None THEN {}
    ELSE {Tail(file[1])[i][col] : i \in {j \in 1..(Len(file[1]) - 1) : Tail(file[1])[j][1] = repo}}

\* The lines of a file that are read before it fails, or all of them.
ReadableLen(f) == IF f.bad = None THEN Len(f.lines) ELSE f.bad[1]

LinesUpTo(n) == UNION {{dir[f].lines[i] : i \in 1..n[f]} : f \in FileNames}
ReadableLines == LinesUpTo([f \in FileNames |-> ReadableLen(dir[f])])
GoodLines == LinesUpTo([f \in FileNames |-> IF dir[f].bad = None THEN Len(dir[f].lines) ELSE 0])

\* The (repository, timestamp) observations of a set of lines.
Observations(L) ==
    {<<_extract_proj(l).proj[1], _extract_ts(l)[1]>> :
       l \in {k \in L : _extract_ts(k) # None /\ Truthy(_extract_proj(k).proj)}}

\* repository -> the greatest timestamp observed for it.
MaxFold(L) ==
    LET O == Observations(L) IN
    [r \in {o[1] : o \in O} |->
       CHOOSE t \in {o[2] : o \in {q \in O : q[1] = r}} :
         \A o \in O : o[1] = r => ~DtGreater(o[2], t)]

\* The discarded paths of a set of lines.
Discards(L) ==
    {_extract_proj(l).discarded[1] :
       l \in {k \in L : /\ _extract_ts(k) # None
                        /\ ~Truthy(_extract_proj(k).proj)
                        /\ Truthy(_extract_proj(k).discarded)}}

\* C1: after each processed line, last_reads maps every repository to the
\* greatest timestamp among the lines processed so far that have a parsable
\* timestamp and a repository, whatever the order of the files; when the scan
\* returns, the mapping is the one the files' contents fix, for every order.
C1_MaxFold ==
    /\ pc = "scan" => last_reads = MaxFold(LinesUpTo(consumed))
    /\ ScanReturned => last_reads = MaxFold(ReadableLines)

\* A read of a is folded after a later read of a from the other file: the
\* stored, greater timestamp stays.
C1_Witness ==
    /\ pc = "scan"
    /\ cur = Some("httpd.log.1.gz") /\ pos = 1
    /\ dir["httpd.log.1.gz"].lines[1] = LinePackA
    /\ consumed["httpd.log"] = 2
    /\ dir["httpd.log"].lines = <<LinePackA, LineRestA>>
    /\ last_reads["a"] = _extract_ts(LineRestA)[1]

\* C2: a run of main that finds a known creation date for a repository of the
\* catalog in the report writes the same date and does not call
\* get_first_commit_date for it.
C2_CreationDateKept ==
    [][\A r \in Range(CatalogOrder) :
         ( /\ pc = "scan" /\ pc' = "done"
           /\ r \in Range(repos)
           /\ Cells(csv, r, 2) # {}
           /\ Cells(csv, r, 2) \cap {"N/A", ""} = {} )
         => /\ Cells(csv', r, 2) = Cells(csv, r, 2)
            /\ r \notin DOMAIN first_commit']_vars

\* A run reused the known date of a while get_first_commit_date failed for b.
C2_Witness ==
    /\ pc = "done"
    /\ "a" \in DOMAIN existing_data
    /\ existing_data["a"].creation = Some("2019-06-01T00:00:00+00:00")
    /\ Cells(csv, "a", 2) = {"2019-06-01T00:00:00+00:00"}
    /\ "a" \notin DOMAIN first_commit
    /\ "b" \in DOMAIN first_commit /\ first_commit["b"] = None

\* C3: the last read written for a repository is this run's scanned value, and
\* N/A when this run's logs have none or no logs directory is configured.
C3_LastReadFromThisRun ==
    pc = "done" =>
      \A i \in 1..Len(repos) :
        /\ Cells(csv, repos[i], 3) =
             {IF repos[i] \in DOMAIN last_reads THEN DtStr(last_reads[repos[i]]) ELSE "N/A"}
        /\ LOGS_PATH = "" => Cells(csv, repos[i], 3) = {"N/A"}

\* The prior report held a last read for a, this run's logs have none.
C3_Witness ==
    /\ pc = "done"
    /\ "a" \in Range(repos) /\ "a" \in DOMAIN existing_data
    /\ existing_data["a"].last_read = Some("2024-01-01 00:00:02.001000+00:00")
    /\ "a" \notin DOMAIN last_reads
    /\ Cells(csv, "a", 3) = {"N/A"}
    /\ "b" \in DOMAIN last_reads /\ Cells(csv, "b", 3) = {"2024-01-01 00:00:02.500000+00:00"}

\* C4: the report of a completed run has one row per catalog name other than
\* the two administrative names, in the catalog's order, and no other row; a
\* repository without any creation date has its row, with N/A.
C4_RowsAreTheCatalog ==
    pc = "done" =>
      /\ [i \in 1..Len(ReportRows) |-> ReportRows[i][1]]
           = Sel(catalog, Range(catalog) \ AdminNames)
      /\ Cardinality(Range(catalog) \ AdminNames) = Len(ReportRows)
      /\ \A r \in DOMAIN first_commit :
           first_commit[r] = None => Cells(csv, r, 2) = {"N/A"}

\* b is in the prior report and in the logs but not in the catalog; a has no
\* creation date in the prior report and none from git.
C4_Witness ==
    /\ pc = "done"
    /\ "b" \in DOMAIN existing_data /\ "b" \in DOMAIN last_reads
    /\ "b" \notin Range(catalog)
    /\ Cells(csv, "b", 1) = {}
    /\ "a" \in DOMAIN first_commit /\ first_commit["a"] = None
    /\ Cells(csv, "a", 2) = {"N/A"}

\* C5: the report has a column Last Update Date, and every row a cell in it.
C5_LastUpdateColumn ==
    csv # None =>
      /\ "Last Update Date" \in Range(csv[1][1])
      /\ \A i \in 1..Len(ReportRows) : Len(ReportRows[i]) = Len(csv[1][1])

\* C6: a processed line with a timestamp without fraction and a pack-transfer
\* read of a repository of the catalog gives that repository a last read.
C6_NoFractionTimestampRead ==
    pc = "done" =>
      \A r \in Range(repos) :
        (\E l \in LinesUpTo(consumed) :
           /\ _TS_RE(l) # None /\ _TS_RE(l)[1].f = <<>>
           /\ _UPLOAD_PACK_RE(l.req) = Some(r))
        => Cells(csv, r, 3) # {"N/A"}

\* C7: a creation date read back as N/A is looked up again, and a date found
\* replaces it.
C7_SentinelIsUnknown ==
    pc = "done" =>
      \A r \in Range(repos) :
        (r \in DOMAIN existing_data /\ existing_data[r].creation = Some("N/A"))
        => /\ r \in DOMAIN first_commit
           /\ first_commit[r] # None => Cells(csv, r, 2) = {first_commit[r][1]}

\* C8: when the pack-transfer pattern matches a line, _extract_proj returns its
\* repository and no discarded path, whatever the generic fallback would give;
\* the fallback's result is returned only when the pattern does not match.
C8_PackTransferFirst ==
    result # None =>
      LET m == _UPLOAD_PACK_RE(line.req) IN
      /\ m # None => result[1] = [proj |-> m, discarded |-> None]
      /\ m = None => result[1] = HttpUrl(line.req)

\* GET /projects/a/info/refs?service=git-upload-pack matches both, with
\* different repositories.
C8_Witness ==
    /\ result # None
    /\ line.req = Req("GET", <<"projects", "a", "info", "refs">>, "service=git-upload-pack")
    /\ _UPLOAD_PACK_RE(line.req) = Some("projects/a")
    /\ HttpUrl(line.req).proj = Some("a")
    /\ result[1].proj = Some("projects/a")

\* C9 as stated: what the scan returns is what the files that did not fail
\* give; a file that failed contributes nothing.
C9_FailedFileContributesNothing ==
    ScanReturned =>
      /\ last_reads = MaxFold(GoodLines)
      /\ discarded_urls = Discards(GoodLines)

\* C9: when the scan returns, every file that did not fail was processed to its
\* end and every file that failed up to the line before its failure (none for
\* a file that cannot be opened), and what is returned is what those lines give.
C9_FailedFileKeepsPrefix ==
    ScanReturned =>
      /\ \A f \in FileNames : consumed[f] = ReadableLen(dir[f])
      /\ last_reads = MaxFold(ReadableLines)
      /\ discarded_urls = Discards(ReadableLines)

\* One file failed after its first line, whose read is in the mapping; the
\* other was read to its end.
C9_Witness ==
    /\ ScanReturned /\ LOGS_PATH = "logs"
    /\ \E f \in FileNames, g \in FileNames :
         /\ f # g
         /\ dir[f].lines = <<LinePackA, LineStatic>> /\ dir[f].bad = Some(1)
         /\ dir[g].lines = <<LineChangeB>> /\ dir[g].bad = None
         /\ consumed[f] = 1 /\ consumed[g] = 1
    /\ DOMAIN last_reads = {"a", "b"}
    /\ discarded_urls = {}

\* C10: every run of main that ended, whatever the catalog, wrote a report of
\* the catalog's names other than the two administrative names.
C10_AdminNamesOptional ==
    pc \in {"done", "crashed"} =>
      /\ pc = "done"
      /\ Range([i \in 1..Len(ReportRows) |-> ReportRows[i][1]]) = Range(catalog) \ AdminNames

=============================================================================
